---- MODULE Spec2Model ----
(***************************************************************************)
(* A model of src/app.ts: the functions of the file and the module-level   *)
(* state they read and write, over a small JavaScript store.               *)
(*                                                                         *)
(*   heap     the objects created so far; a reference is an index into it  *)
(*   globals  the module-level bindings (person, newPerson, selected, ...) *)
(*   console  what console.log has printed, one entry per call             *)
(*   call     the most recent call: its function, arguments and result     *)
(*                                                                         *)
(* Each section of the file is independent of the others, so each gets a   *)
(* specification of its own over these four variables.                     *)
(***************************************************************************)
EXTENDS Integers, Sequences, FiniteSets, TLC

VARIABLES heap, globals, console, call

vars == <<heap, globals, console, call>>

(***************************************************************************)
(* Bounds of the model.                                                    *)
(***************************************************************************)
MaxLen == 3            \* longest string / array handed to reverse
MaxHeap == 4           \* objects a run may allocate
MaxLog == 3            \* console entries a run may print
MaxHalfSeconds == 660  \* longest numeric song duration, in steps of 500 ms
MaxNegHalfSeconds == 2 \* most negative numeric duration, in steps of 500 ms

(***************************************************************************)
(* JavaScript values.  A string whose characters some function inspects is *)
(* a sequence of one-character strings (its UTF-16 code units); a string   *)
(* that is only stored and compared is kept whole.                         *)
(***************************************************************************)
Undefined == [t |-> "undefined"]
Str(s) == [t |-> "string", s |-> s]
Num(n) == [t |-> "number", n |-> n]
Bool(b) == [t |-> "boolean", b |-> b]
Ref(r) == [t |-> "object", ref |-> r]

typeof(v) == v.t

NoCall == [fn |-> "none"]

\* An object: its class (the constructor whose prototype it has), its own
\* properties, and whether Object.freeze has been applied to it.
Obj(cls, props) == [cls |-> cls, props |-> props, frozen |-> FALSE]

\* An array: its elements in order.
Arr(elems) == [cls |-> "Array", elems |-> elems, frozen |-> FALSE]

\* obj[key]: the own property, or undefined when there is none.
Get(o, key) == IF key \in DOMAIN o.props THEN o.props[key] ELSE Undefined

\* Allocation: the new object gets the next reference.
Alloc(h, o) == [heap |-> Append(h, o), ref |-> Len(h) + 1]

\* f extended or overwritten by g (object spread, left to right).
Merge(f, g) ==
  [k \in DOMAIN f \cup DOMAIN g |-> IF k \in DOMAIN g THEN g[k] ELSE f[k]]

(***************************************************************************)
(* Function overloads: reverse (lines 277-291).                            *)
(***************************************************************************)
\* String.prototype.split(''): an array of one-character strings, one per
\* code unit of the string, in order.
split(s) == [i \in 1..Len(s) |-> Str(<<s[i]>>)]

\* Array.prototype.join(''): the concatenation of the elements' characters.
RECURSIVE join(_)
join(a) == IF a = <<>> THEN <<>> ELSE a[1].s \o join(Tail(a))

\* Array.prototype.reverse on the elements of an array.
ArrayReverse(a) == [i \in 1..Len(a) |-> a[Len(a) + 1 - i]]

\* A reverse that loses the .reverse() of the string branch.
reverseString_noReverse(s) == Str(join(split(s.s)))

\* reverse, string branch: split, reverse, join.
reverseString(s) == Str(join(ArrayReverse(split(s.s))))

\* A reverse that loses the .slice(): it reverses the argument in place and
\* returns it.
reverseArray_inPlace(h, r) ==
  [heap |-> [h EXCEPT ![r.ref].elems = ArrayReverse(@)], ret |-> r]

\* reverse, array branch: slice() allocates a copy, reverse() reverses the
\* copy in place and returns it.
reverseArray(h, r) ==
  LET copy == Alloc(h, Arr(h[r.ref].elems))
  IN  [heap |-> [copy.heap EXCEPT ![copy.ref].elems = ArrayReverse(@)],
       ret |-> Ref(copy.ref)]

\* reverse: the typeof test selects the branch.
reverse(h, v) ==
  IF typeof(v) = "string"
    THEN [heap |-> h, ret |-> reverseString(v)]
    ELSE reverseArray(h, v)

Chars == {"a", "B"}
Elems == {Str("frosting"), Num(1)}

SeqsUpTo(S, n) == UNION {[1..k -> S] : k \in 0..n}

Birthday == <<"B", "i", "r", "t", "h", "d", "a", "y">>
yadhtriB == <<"y", "a", "d", "h", "t", "r", "i", "B">>

ReverseStrings == {Str(s) : s \in SeqsUpTo(Chars, MaxLen) \cup {Birthday}}

\* The array literal of line 291.
Toppings == <<Str("frosting"), Str("vanilla"), Str("smarties")>>

ReverseArrays == SeqsUpTo(Elems, MaxLen) \cup {Toppings}

\* The module before the calls of lines 290-291: one array literal exists,
\* the one of line 291 or another short array.
InitReverse ==
  /\ heap \in {<<Arr(a)>> : a \in ReverseArrays}
  /\ globals = <<>>
  /\ console = <<>>
  /\ call = NoCall

\* reverse(<a string>), line 290.
ReverseString(s) ==
  LET out == reverse(heap, s)
  IN  /\ heap' = out.heap
      /\ call' = [fn |-> "reverse", arg |-> s, ret |-> out.ret]
      /\ UNCHANGED <<globals, console>>

\* reverse(<an array>), line 291; the argument is any array made so far.
ReverseArray(r) ==
  /\ Len(heap) < MaxHeap
  /\ LET out == reverse(heap, Ref(r))
     IN  /\ heap' = out.heap
         /\ call' = [fn |-> "reverse", arg |-> Ref(r), ret |-> out.ret]
  /\ UNCHANGED <<globals, console>>

NextReverse ==
  \/ \E s \in ReverseStrings : ReverseString(s)
  \/ \E r \in DOMAIN heap : ReverseArray(r)

SpecReverse == InitReverse /\ [][NextReverse]_vars

\* C1: for every string s, reverse(s) is a string of the same length whose
\* character i is character len-1-i of s (0-based; here 1-based: character i
\* of the result is character len+1-i of s), and reverse('Birthday') is
\* 'yadhtriB'.
C1_ReverseString ==
  (call.fn = "reverse" /\ typeof(call.arg) = "string") =>
     /\ typeof(call.ret) = "string"
     /\ Len(call.ret.s) = Len(call.arg.s)
     /\ \A i \in 1..Len(call.arg.s) :
          call.ret.s[i] = call.arg.s[Len(call.arg.s) + 1 - i]
     /\ (call.arg.s = Birthday => call.ret.s = yadhtriB)

C1_Witness ==
  /\ call.fn = "reverse"
  /\ typeof(call.arg) = "string"
  /\ call.arg.s = Birthday
  /\ call.ret.s = yadhtriB

\* C5: for every array arr, reverse(arr) returns a new array (a reference
\* that did not exist before the call) holding the elements of arr in reverse
\* order, and every array that existed before the call, arr included, has the
\* same elements in the same order after it.
C5_ReverseArray ==
  [][(call'.fn = "reverse" /\ typeof(call'.arg) = "object") =>
        /\ typeof(call'.ret) = "object"
        /\ call'.ret.ref \notin DOMAIN heap
        /\ call'.ret.ref \in DOMAIN heap'
        /\ Len(heap'[call'.ret.ref].elems) = Len(heap[call'.arg.ref].elems)
        /\ \A i \in 1..Len(heap[call'.arg.ref].elems) :
             heap'[call'.ret.ref].elems[i] =
               heap[call'.arg.ref].elems[Len(heap[call'.arg.ref].elems) + 1 - i]
        /\ \A r \in DOMAIN heap : heap'[r] = heap[r]]_vars

C5_Witness ==
  /\ call.fn = "reverse"
  /\ typeof(call.arg) = "object"
  /\ Len(heap[call.arg.ref].elems) = 3
  /\ heap[call.arg.ref].elems[1] # heap[call.arg.ref].elems[3]
  /\ call.ret.ref # call.arg.ref
  /\ heap[call.ret.ref].elems[1] = heap[call.arg.ref].elems[3]

(***************************************************************************)
(* typeof and type guards: Song, getSongDuration (lines 94-114).           *)
(***************************************************************************)
DigitChars == <<"0", "1", "2", "3", "4", "5", "6", "7", "8", "9">>

\* The decimal digits of a natural number, most significant first.
RECURSIVE NatDigits(_)
NatDigits(n) ==
  IF n < 10 THEN <<DigitChars[n + 1]>>
  ELSE NatDigits(n \div 10) \o <<DigitChars[(n % 10) + 1]>>

\* A sequence of digits without its trailing zeros.
RECURSIVE StripTrailingZeros(_)
StripTrailingZeros(ds) ==
  IF ds # <<>> /\ ds[Len(ds)] = "0"
    THEN StripTrailingZeros(SubSeq(ds, 1, Len(ds) - 1))
    ELSE ds

\* Number-to-string of the template literal, for a number given in
\* thousandths (x stands for x/1000): sign, integer part and, when there is
\* one, the fraction without trailing zeros.  -0 prints as 0.
ToStringThousandths(x) ==
  LET a == IF x < 0 THEN -x ELSE x
      whole == a \div 1000
      frac == a % 1000
      fracDigits == <<DigitChars[(frac \div 100) + 1],
                      DigitChars[((frac \div 10) % 10) + 1],
                      DigitChars[(frac % 10) + 1]>>
  IN  (IF x < 0 THEN <<"-">> ELSE <<>>)
      \o NatDigits(whole)
      \o (IF frac = 0 THEN <<>> ELSE <<".">> \o StripTrailingZeros(fracDigits))

\* Number-to-string of an integer.
ToStringInt(n) == ToStringThousandths(n * 1000)

\* JavaScript's %: the remainder has the sign of the dividend.
JsRem(a, b) == IF a >= 0 THEN a % b ELSE -((-a) % b)

\* new Song(title, duration)
Song(title, duration) ==
  Obj("Song", [title |-> title, duration |-> duration])

\* A getSongDuration that takes the remainder of the milliseconds, not of the
\* seconds.
getSongDuration_noDivide(item) ==
  IF typeof(item.props.duration) = "string"
    THEN item.props.duration
    ELSE LET duration == item.props.duration.n
             minutes == duration \div 60000
             seconds == JsRem(duration, 60)
         IN  Str(ToStringInt(minutes) \o <<":">> \o ToStringInt(seconds))

\* getSongDuration.  duration / 1000 need not be whole, so seconds is kept in
\* thousandths: (duration / 1000) % 60 is (duration % 60000) / 1000.  The
\* durations of the model are multiples of 500 ms, for which the
\* floating-point quotient and remainder are exact.
getSongDuration(item) ==
  IF typeof(item.props.duration) = "string"
    THEN item.props.duration
    ELSE LET duration == item.props.duration.n
             minutes == duration \div 60000
             secondsThousandths == JsRem(duration, 60 * 1000)
         IN  Str(ToStringInt(minutes) \o <<":">>
                 \o ToStringThousandths(secondsThousandths))

SongTitles == {Str("Wonderful Wonderful"), Str("The Man")}

SongDurations ==
  {Num(k * 500) : k \in (0 - MaxNegHalfSeconds)..MaxHalfSeconds}
    \cup {Str(<<"0", "5", ":", "3", "1">>), Str(<<>>)}

\* The module after a `new Song(...)`: lines 109 and 113.
InitSong ==
  /\ heap \in {<<Song(t, d)>> : t \in SongTitles, d \in SongDurations}
  /\ globals = <<>>
  /\ console = <<>>
  /\ call = NoCall

\* getSongDuration(item), lines 108 and 112.
GetSongDuration(r) ==
  /\ heap[r].cls = "Song"
  /\ call' = [fn |-> "getSongDuration", arg |-> Ref(r),
              ret |-> getSongDuration(heap[r])]
  /\ UNCHANGED <<heap, globals, console>>

NextSong == \E r \in DOMAIN heap : GetSongDuration(r)

SpecSong == InitSong /\ [][NextSong]_vars

\* The value of a sequence of decimal digits.
RECURSIVE ParseNat(_)
ParseNat(ds) ==
  IF ds = <<>> THEN 0
  ELSE 10 * ParseNat(SubSeq(ds, 1, Len(ds) - 1))
       + (CHOOSE d \in 0..9 : DigitChars[d + 1] = ds[Len(ds)])

\* A natural number written in decimal without padding: digits only, at least
\* one, and no leading zero unless it is the digit 0 alone.
IsPlainNat(ds) ==
  /\ Len(ds) >= 1
  /\ \A i \in 1..Len(ds) : \E d \in 1..10 : DigitChars[d] = ds[i]
  /\ (Len(ds) > 1 => ds[1] # "0")

\* C2: for a Song whose duration is a number d >= 0 of milliseconds, a whole
\* number of seconds, getSongDuration returns '<m>:<s>' with m = floor(d /
\* 60000) and s = (d / 1000) mod 60, both without zero padding; 330000 ms
\* yields '5:30'.
C2_SongDuration ==
  (/\ call.fn = "getSongDuration"
   /\ typeof(heap[call.arg.ref].props.duration) = "number"
   /\ heap[call.arg.ref].props.duration.n >= 0
   /\ heap[call.arg.ref].props.duration.n % 1000 = 0) =>
     LET d == heap[call.arg.ref].props.duration.n
         out == call.ret.s
     IN  /\ typeof(call.ret) = "string"
         /\ \E c \in 1..Len(out) :
              /\ out[c] = ":"
              /\ IsPlainNat(SubSeq(out, 1, c - 1))
              /\ IsPlainNat(SubSeq(out, c + 1, Len(out)))
              /\ ParseNat(SubSeq(out, 1, c - 1)) = d \div 60000
              /\ ParseNat(SubSeq(out, c + 1, Len(out))) = (d \div 1000) % 60
         /\ (d = 330000 => out = <<"5", ":", "3", "0">>)

C2_Witness ==
  /\ call.fn = "getSongDuration"
  /\ heap[call.arg.ref].props.duration = Num(330000)
  /\ call.ret = Str(<<"5", ":", "3", "0">>)

(***************************************************************************)
(* Mapped types: person, freeze, updatePerson (lines 20-50).               *)
(***************************************************************************)
PersonKeys == {"name", "age"}

\* The person literal of lines 25-28.
Person(name, age) == Obj("Object", [name |-> name, age |-> age])

\* A freeze that freezes a shallow copy and returns the copy.
freeze_copy(h, r) ==
  LET c == Alloc(h, [h[r.ref] EXCEPT !.frozen = TRUE])
  IN  [heap |-> c.heap, ret |-> Ref(c.ref)]

\* freeze: Object.freeze marks the object itself and returns it.
freeze(h, r) == [heap |-> [h EXCEPT ![r.ref].frozen = TRUE], ret |-> r]

\* obj[key] = v on the object r refers to.  The file is a module, hence
\* strict code: on a frozen object the assignment throws a TypeError and
\* writes nothing.
PutValue(h, r, key, v) ==
  IF h[r.ref].frozen
    THEN [heap |-> h, threw |-> TRUE]
    ELSE [heap |-> [h EXCEPT ![r.ref].props = Merge(@, [k \in {key} |-> v])],
          threw |-> FALSE]

\* An updatePerson that spreads in the wrong order: { ...prop, ...person }.
updatePerson_swapped(h, person, prop) ==
  LET new == Alloc(h, Obj("Object", Merge(prop, h[person.ref].props)))
  IN  [heap |-> new.heap, ret |-> Ref(new.ref)]

\* updatePerson: { ...person, ...prop } is a new object holding person's own
\* properties, then prop's over them.
updatePerson(h, person, prop) ==
  LET new == Alloc(h, Obj("Object", Merge(h[person.ref].props, prop)))
  IN  [heap |-> new.heap, ret |-> Ref(new.ref)]

PersonNames == {Str("Tyler"), Str("Joe")}
PersonAges == {Num(30)}
PropNames == {Str("Joe"), Undefined}
PropAges == {Num(31)}

\* The values of MyPartial<Person>: any subset of the keys; a key that is
\* present may hold undefined.
PartialPersons ==
  {[k \in {} |-> Undefined]}
    \cup {[name |-> n] : n \in PropNames}
    \cup {[age |-> a] : a \in PropAges}
    \cup {[name |-> n, age |-> a] : n \in PropNames, a \in PropAges}

\* The module after line 28: person is bound, newPerson is not yet.
InitMapped ==
  /\ heap \in {<<Person(n, a)>> : n \in PersonNames, a \in PersonAges}
  /\ globals = [person |-> Ref(1), newPerson |-> Undefined]
  /\ console = <<>>
  /\ call = NoCall

\* const newPerson = freeze(person), line 39.
Freeze ==
  /\ globals.newPerson = Undefined
  /\ LET out == freeze(heap, globals.person)
     IN  /\ heap' = out.heap
         /\ globals' = [globals EXCEPT !.newPerson = out.ret]
         /\ call' = [fn |-> "freeze", arg |-> globals.person, ret |-> out.ret]
  /\ UNCHANGED console

\* updatePerson(<a person>, <a partial person>), line 50.
UpdatePerson(r, prop) ==
  /\ Len(heap) < MaxHeap
  /\ LET out == updatePerson(heap, Ref(r), prop)
     IN  /\ heap' = out.heap
         /\ call' = [fn |-> "updatePerson", person |-> Ref(r), prop |-> prop,
                     ret |-> out.ret]
  /\ UNCHANGED <<globals, console>>

\* An attempted write <variable>.<key> = v through one of the two bindings.
AttemptWrite(var, key, v) ==
  /\ typeof(globals[var]) = "object"
  /\ LET out == PutValue(heap, globals[var], key, v)
     IN  /\ heap' = out.heap
         /\ call' = [fn |-> "assign", target |-> globals[var], key |-> key,
                     value |-> v, threw |-> out.threw]
  /\ UNCHANGED <<globals, console>>

NextMapped ==
  \/ Freeze
  \/ \E r \in DOMAIN heap : \E prop \in PartialPersons : UpdatePerson(r, prop)
  \/ \E var \in {"person", "newPerson"} :
       \/ \E v \in PersonNames : AttemptWrite(var, "name", v)
       \/ \E v \in PropAges : AttemptWrite(var, "age", v)

SpecMapped == InitMapped /\ [][NextMapped]_vars

\* C3: updatePerson(person, prop) returns a new record in which each field
\* present in prop has prop's value and each field absent from prop has
\* person's value, and it modifies no existing object, person included; it
\* does so whether or not person is frozen.
C3_UpdatePerson ==
  [][call'.fn = "updatePerson" =>
       LET person == heap[call'.person.ref]
           prop == call'.prop
           ret == call'.ret
       IN  /\ typeof(ret) = "object"
           /\ ret.ref \notin DOMAIN heap
           /\ ret.ref \in DOMAIN heap'
           /\ DOMAIN heap'[ret.ref].props = PersonKeys
           /\ \A k \in PersonKeys :
                heap'[ret.ref].props[k] =
                  IF k \in DOMAIN prop THEN prop[k] ELSE person.props[k]
           /\ \A r \in DOMAIN heap : heap'[r] = heap[r]]_vars

C3_Witness ==
  /\ call.fn = "updatePerson"
  /\ call.person = globals.person
  /\ heap[call.person.ref].frozen
  /\ call.prop = [name |-> Str("Joe")]
  /\ heap[call.person.ref].props.name = Str("Tyler")
  /\ heap[call.ret.ref].props = [name |-> Str("Joe"), age |-> Num(30)]

\* C4: freeze(obj) returns the very object it was given with its fields
\* unchanged, and from then on no step changes any field of a frozen object,
\* whichever reference the write goes through, nor unfreezes it.
C4_Freeze ==
  [][/\ call'.fn = "freeze" =>
          /\ call'.ret = call'.arg
          /\ heap'[call'.arg.ref].props = heap[call'.arg.ref].props
          /\ heap'[call'.arg.ref].frozen
          /\ Len(heap') = Len(heap)
     /\ \A r \in DOMAIN heap :
          heap[r].frozen =>
            /\ r \in DOMAIN heap'
            /\ heap'[r].props = heap[r].props
            /\ heap'[r].frozen
     /\ (call'.fn = "assign" /\ globals.newPerson # Undefined) =>
          heap' = heap]_vars

C4_Witness ==
  /\ call.fn = "assign"
  /\ call.target = globals.person
  /\ globals.newPerson = globals.person
  /\ call.threw
  /\ heap[globals.person.ref].frozen
  /\ heap[globals.person.ref].props[call.key] # call.value

(***************************************************************************)
(* instanceof, user-defined and literal type guards: Album, Playlist,      *)
(* getItemName, isAlbum, getName, getKindName (lines 116-155).             *)
(***************************************************************************)
\* new Album(title, duration).  The parameter properties title and duration
\* are assigned; `kind` is declared without an initializer and the
\* constructor does not assign it.
Album(title, duration) ==
  Obj("Album", [title |-> title, duration |-> duration])

\* new Playlist(name, songs); songs refers to an array.  `kind` is not
\* assigned here either.
Playlist(name, songs) ==
  Obj("Playlist", [name |-> name, songs |-> songs])

\* v instanceof C, for the two classes of the file (neither is subclassed).
instanceof(h, v, C) == typeof(v) = "object" /\ h[v.ref].cls = C

\* getItemName: the instanceof guard.
getItemName(h, item) ==
  IF instanceof(h, item, "Album")
    THEN Get(h[item.ref], "title")
    ELSE Get(h[item.ref], "name")

\* An isAlbum that tests against the wrong class.
isAlbum_wrongClass(h, item) == instanceof(h, item, "Playlist")

\* isAlbum: the user-defined guard.
isAlbum(h, item) == instanceof(h, item, "Album")

\* getName: the same as getItemName, through isAlbum.
getName(h, item) ==
  IF isAlbum(h, item)
    THEN Get(h[item.ref], "title")
    ELSE Get(h[item.ref], "name")

\* getKindName: the literal guard on the kind field.
getKindName(h, item) ==
  IF Get(h[item.ref], "kind") = Str("album")
    THEN Get(h[item.ref], "title")
    ELSE Get(h[item.ref], "name")

AlbumTitles == {Str("Wonderful Wonderful"), Str("The Man")}
AlbumDurations == {Num(300000)}
PlaylistNames == {Str("Best Albums"), Str("The Man")}

IsItem(h, r) == h[r].cls \in {"Album", "Playlist"}

\* References to the albums made so far.
AlbumRefs(h) == {r \in DOMAIN h : h[r].cls = "Album"}

\* The module before line 132: nothing has been constructed.
InitGuards ==
  /\ heap = <<>>
  /\ globals = <<>>
  /\ console = <<>>
  /\ call = NoCall

\* new Album(title, duration), lines 132 and 134.
NewAlbum(title, duration) ==
  /\ Len(heap) < MaxHeap
  /\ LET new == Alloc(heap, Album(title, duration))
     IN  /\ heap' = new.heap
         /\ call' = [fn |-> "new Album", ret |-> Ref(new.ref)]
  /\ UNCHANGED <<globals, console>>

\* new Playlist(name, [<albums>]), line 134: the array literal, then the
\* playlist.
NewPlaylist(name, songs) ==
  /\ Len(heap) + 1 < MaxHeap
  /\ LET arr == Alloc(heap, Arr(songs))
         new == Alloc(arr.heap, Playlist(name, Ref(arr.ref)))
     IN  /\ heap' = new.heap
         /\ call' = [fn |-> "new Playlist", ret |-> Ref(new.ref)]
  /\ UNCHANGED <<globals, console>>

\* getItemName(item), lines 132-133.
GetItemName(r) ==
  /\ IsItem(heap, r)
  /\ call' = [fn |-> "getItemName", arg |-> Ref(r),
              ret |-> getItemName(heap, Ref(r))]
  /\ UNCHANGED <<heap, globals, console>>

\* isAlbum(item); item is of type any.
IsAlbum(r) ==
  /\ call' = [fn |-> "isAlbum", arg |-> Ref(r),
              ret |-> Bool(isAlbum(heap, Ref(r)))]
  /\ UNCHANGED <<heap, globals, console>>

\* getName(item)
GetName(r) ==
  /\ IsItem(heap, r)
  /\ call' = [fn |-> "getName", arg |-> Ref(r),
              ret |-> getName(heap, Ref(r))]
  /\ UNCHANGED <<heap, globals, console>>

\* getKindName(item)
GetKindName(r) ==
  /\ IsItem(heap, r)
  /\ call' = [fn |-> "getKindName", arg |-> Ref(r),
              ret |-> getKindName(heap, Ref(r))]
  /\ UNCHANGED <<heap, globals, console>>

NextGuards ==
  \/ \E title \in AlbumTitles : \E d \in AlbumDurations : NewAlbum(title, d)
  \/ \E name \in PlaylistNames :
       \E songs \in {<<>>} \cup {<<Ref(a)>> : a \in AlbumRefs(heap)} :
         NewPlaylist(name, songs)
  \/ \E r \in DOMAIN heap : GetItemName(r)
  \/ \E r \in DOMAIN heap : IsAlbum(r)
  \/ \E r \in DOMAIN heap : GetName(r)
  \/ \E r \in DOMAIN heap : GetKindName(r)

SpecGuards == InitGuards /\ [][NextGuards]_vars

\* The name the claims expect of an item: an Album's title, a Playlist's name.
ExpectedName(h, r) ==
  IF h[r].cls = "Album" THEN h[r].props.title ELSE h[r].props.name

\* C6: for every Album or Playlist, getItemName and getName return the same
\* value, the title of an Album and the name of a Playlist, and isAlbum is
\* true exactly of the Albums.
C6_GuardsEquivalent ==
  /\ \A r \in DOMAIN heap :
       IsItem(heap, r) =>
         /\ getItemName(heap, Ref(r)) = getName(heap, Ref(r))
         /\ getName(heap, Ref(r)) = ExpectedName(heap, r)
  /\ call.fn \in {"getItemName", "getName"} =>
       call.ret = ExpectedName(heap, call.arg.ref)
  /\ call.fn = "isAlbum" =>
       call.ret = Bool(heap[call.arg.ref].cls = "Album")

C6_Witness ==
  /\ call.fn = "getName"
  /\ heap[call.arg.ref].cls = "Playlist"
  /\ call.ret = Str("Best Albums")
  /\ \E r \in DOMAIN heap :
       /\ heap[r].cls = "Album"
       /\ getName(heap, Ref(r)) = Str("Wonderful Wonderful")
       /\ getItemName(heap, Ref(r)) = Str("Wonderful Wonderful")

\* C8: for every item made by the Album or the Playlist constructor,
\* getKindName(item) equals getItemName(item): the title of an Album, the
\* name of a Playlist.
C8_KindGuardAgrees ==
  call.fn = "getKindName" =>
    /\ call.ret = getItemName(heap, call.arg)
    /\ call.ret = ExpectedName(heap, call.arg.ref)

(***************************************************************************)
(* Discriminated unions, generics, string enums and the lodash mixin:     *)
(* checkout (lines 157-208), List (lines 248-267), selected and updateSize *)
(* (lines 298-304), log (lines 310-314).  These are the parts of the file  *)
(* with module-level effects.                                              *)
(***************************************************************************)
\* The order literal of lines 179-183.
order == [id |-> Str("xj27s"), amount |-> Num(100), currency |-> Str("CAD")]

\* orderCard, lines 185-190: { ...order, type: 'stripe', card, cvc }.
CheckoutCard(card, cvc) ==
  Obj("Object", Merge(order, [type |-> Str("stripe"), card |-> card, cvc |-> cvc]))

\* orderPayPal, lines 192-196: { ...order, type: 'paypal', email }.
CheckoutPalPal(email) ==
  Obj("Object", Merge(order, [type |-> Str("paypal"), email |-> email]))

\* A checkout whose second branch lost its test.
checkout_noSecondTest(c, payload) ==
  LET c1 == IF Get(payload, "type") = Str("stripe")
              THEN Append(c, <<Get(payload, "card"), Get(payload, "cvc")>>)
              ELSE c
  IN  Append(c1, <<Get(payload, "email")>>)

\* checkout: two independent tests of payload.type, each logging once.  The
\* result is the console after the call.
checkout(c, payload) ==
  LET c1 == IF Get(payload, "type") = Str("stripe")
              THEN Append(c, <<Get(payload, "card"), Get(payload, "cvc")>>)
              ELSE c
  IN  IF Get(payload, "type") = Str("paypal")
        THEN Append(c1, <<Get(payload, "email")>>)
        ELSE c1

\* log, the function lines 310-314 mix into lodash: console.log(':::', item).
\* The result is the console after the call.
log(c, item) == Append(c, <<Str(":::"), item>>)

\* new Cake(name, price)
Cake(name, price) == Obj("Cake", [name |-> name, price |-> price])

\* new List<T>(): the field `list` is declared without an initializer and
\* there is no constructor, so the object has no own property.
List == Obj("List", [k \in {} |-> Undefined])

\* An addItem that stores the item: (this.list = this.list || []).push(item).
addItem_stores(h, this, item) ==
  LET l == Get(h[this.ref], "list")
  IN  IF typeof(l) = "undefined"
        THEN LET a == Alloc(h, Arr(<<item>>))
             IN  [a.heap EXCEPT ![this.ref].props =
                                   Merge(@, [list |-> Ref(a.ref)])]
        ELSE [h EXCEPT ![l.ref].elems = Append(@, item)]

\* addItem: the body is a comment; the heap is left as it is.
addItem(h, this, item) == h

\* getList: this.list
getList(h, this) == Get(h[this.ref], "list")

\* An updateSize that assigns nothing.
updateSize_noAssign(g, size) == g

\* updateSize: selected = size
updateSize(g, size) == [g EXCEPT !.selected = size]

Sizes == {Str("small"), Str("medium"), Str("large")}
Cards == {Str("1000 2000 3000 4000")}
Cvcs == {Str("123")}
Emails == {Str("abc@def.com")}
LogItems == {Str("abc@def.com"), Str("CAKE25")}
CakeNames == {Str("Birthday"), Str("Wedding")}
CakePrices == {Num(15)}

Payloads ==
  {CheckoutCard(card, cvc) : card \in Cards, cvc \in Cvcs}
    \cup {CheckoutPalPal(email) : email \in Emails}

\* The module with a payload and the list constructed and selected at its
\* initializer, Size.Small (lines 185-196, 265, 300).
Init ==
  /\ heap \in {<<p, List>> : p \in Payloads}
  /\ globals = [payload |-> Ref(1), list |-> Ref(2), selected |-> Str("small")]
  /\ console = <<>>
  /\ call = NoCall

\* checkout(payload)
Checkout ==
  /\ Len(console) < MaxLog
  /\ console' = checkout(console, heap[globals.payload.ref])
  /\ call' = [fn |-> "checkout", arg |-> globals.payload]
  /\ UNCHANGED <<heap, globals>>

\* list.addItem(new Cake(name, price)), line 266.
AddItem(name, price) ==
  /\ Len(heap) < MaxHeap
  /\ LET cake == Alloc(heap, Cake(name, price))
     IN  /\ heap' = addItem(cake.heap, globals.list, Ref(cake.ref))
         /\ call' = [fn |-> "addItem", this |-> globals.list,
                     arg |-> Ref(cake.ref)]
  /\ UNCHANGED <<globals, console>>

\* const cakes = list.getList(), line 267.
GetList ==
  /\ call' = [fn |-> "getList", this |-> globals.list,
              ret |-> getList(heap, globals.list)]
  /\ UNCHANGED <<heap, globals, console>>

\* updateSize(size), line 304.
UpdateSize(size) ==
  /\ globals' = updateSize(globals, size)
  /\ call' = [fn |-> "updateSize", arg |-> size]
  /\ UNCHANGED <<heap, console>>

\* _.log(item): the mixed-in function of lines 310-314.
Log(item) ==
  /\ Len(console) < MaxLog
  /\ console' = log(console, item)
  /\ call' = [fn |-> "log", arg |-> item]
  /\ UNCHANGED <<heap, globals>>

Next ==
  \/ Checkout
  \/ \E item \in LogItems : Log(item)
  \/ \E name \in CakeNames : \E price \in CakePrices : AddItem(name, price)
  \/ GetList
  \/ \E size \in Sizes : UpdateSize(size)

Spec == Init /\ [][Next]_vars

\* C7: every checkout call adds exactly one console entry, chosen by
\* payload.type: card and cvc for 'stripe', email for 'paypal'; and it
\* changes neither the payload nor anything else on the heap.
C7_Checkout ==
  [][call'.fn = "checkout" =>
       LET p == heap[call'.arg.ref].props
       IN  /\ p.type \in {Str("stripe"), Str("paypal")}
           /\ Len(console') = Len(console) + 1
           /\ SubSeq(console', 1, Len(console)) = console
           /\ p.type = Str("stripe") =>
                console'[Len(console')] = <<p.card, p.cvc>>
           /\ p.type = Str("paypal") =>
                console'[Len(console')] = <<p.email>>
           /\ heap' = heap]_vars

C7_Witness ==
  /\ call.fn = "checkout"
  /\ heap[call.arg.ref].props.type = Str("stripe")
  /\ console = <<<<Str("1000 2000 3000 4000"), Str("123")>>>>

\* C9: selected is Size.Small initially; every updateSize call leaves it
\* equal to the call's argument and changes nothing else; every other step
\* leaves it as it is.  So it always holds the most recently requested size.
C9_Selected ==
  /\ globals.selected = Str("small")
  /\ [][IF call'.fn = "updateSize"
          THEN /\ globals'.selected = call'.arg
               /\ \A k \in DOMAIN globals \ {"selected"} :
                    globals'[k] = globals[k]
               /\ heap' = heap
               /\ console' = console
          ELSE globals'.selected = globals.selected]_vars

C9_Witness ==
  /\ call.fn = "updateSize"
  /\ call.arg = Str("large")
  /\ globals.selected = Str("large")
  /\ console # <<>>

\* Whether v is an array holding x.
Contains(h, v, x) ==
  /\ typeof(v) = "object"
  /\ h[v.ref].cls = "Array"
  /\ \E i \in 1..Len(h[v.ref].elems) : h[v.ref].elems[i] = x

\* C10: whatever addItem calls have been made, getList returns what it
\* returns on a freshly constructed List, and that value contains none of the
\* items handed to addItem.
C10_ListStoresNothing ==
  /\ \A l \in DOMAIN heap :
       heap[l].cls = "List" =>
         /\ getList(heap, Ref(l)) = getList(<<List>>, Ref(1))
         /\ \A c \in DOMAIN heap :
              heap[c].cls = "Cake" => ~Contains(heap, getList(heap, Ref(l)), Ref(c))
  /\ call.fn = "getList" => call.ret = getList(<<List>>, Ref(1))

C10_Witness ==
  /\ call.fn = "getList"
  /\ call.ret = Undefined
  /\ \E c \in DOMAIN heap :
       heap[c].cls = "Cake" /\ heap[c].props.name = Str("Birthday")

====
